---- MODULE Spec2Model ----
(***************************************************************************)
(* Model of bot.py: the gameweek-aware transfer check                      *)
(* (check_for_new_transfers), the state file transfers.json it reads and   *)
(* writes (load_state / save_state), and the two triggers that call it     *)
(* (send_daily_report, check).                                             *)
(*                                                                         *)
(* Python strings are sequences of one-character strings, so that          *)
(* escape_markdown and int() are computed character by character.          *)
(***************************************************************************)
EXTENDS Integers, Sequences, FiniteSets, TLC

(***************************************************************************)
(* Bounds and input alphabets.                                             *)
(***************************************************************************)
\* Longest transfer list a scrape returns in the model.
MaxTransfers == 2

\* Python's None where an int is expected (the saved gameweek).  int() of a
\* string matching \d+ is never negative, so -1 collides with no gameweek.
None == -1

\* Python's None where a string is expected (chip, scraped gameweek).
NoneStr == <<"<None>">>

Range(s) == {s[i] : i \in 1..Len(s)}

\* Player names as they come out of the page.
NameA == <<"A", ".">>
NameB == <<"B", "-", "C">>

\* The transfer pairs [p_out, p_in] the page can show.
PairAB == <<NameA, NameB>>
PairBA == <<NameB, NameA>>
PairUniverse == {PairAB, PairBA}

\* Every list of at most n pairs: order and repetition are the page's.
TransferLists(n) == UNION {[1..k -> PairUniverse] : k \in 0..n}

\* Active chip: absent, or its label.
Chips == {NoneStr, <<"B", "+">>}

\* The text group(1) of r'Gameweek (\d+)' can capture.
GameweekStrs == {<<"5">>, <<"6">>, <<"0", "5">>}

(***************************************************************************)
(* escape_markdown, int                                                    *)
(***************************************************************************)
\* The backquote has no TLA+ string literal: it is written Backquote.
Backquote == "<backquote>"

escape_chars ==
    {"_", "*", "[", "]", "(", ")", "~", Backquote, ">", "#", "+", "-", "=", "|",
     "{", "}", ".", "!"}

RECURSIVE escape_markdown(_)
escape_markdown(text) ==
    IF text = <<>> THEN <<>>
    ELSE (IF Head(text) \in escape_chars
            THEN <<"\\", Head(text)>>
            ELSE <<Head(text)>>) \o escape_markdown(Tail(text))

DigitVal(c) ==
    CASE c = "0" -> 0 [] c = "1" -> 1 [] c = "2" -> 2 [] c = "3" -> 3
      [] c = "4" -> 4 [] c = "5" -> 5 [] c = "6" -> 6 [] c = "7" -> 7
      [] c = "8" -> 8 [] c = "9" -> 9

RECURSIVE int(_)
int(s) ==
    IF s = <<>> THEN 0
    ELSE 10 * int(SubSeq(s, 1, Len(s) - 1)) + DigitVal(s[Len(s)])

(***************************************************************************)
(* The state file transfers.json.                                          *)
(*   kind "absent" : no file          kind "array"  : the old list format  *)
(*   kind "object" : a JSON object with the keys in `keys`                 *)
(***************************************************************************)
FileAbsent ==
    [kind |-> "absent", keys |-> {}, gameweek |-> None, transfers |-> <<>>]

FileLegacyArray ==
    [kind |-> "array", keys |-> {}, gameweek |-> None, transfers |-> <<>>]

DefaultState == [gameweek |-> None, transfers |-> <<>>]

load_state(f) ==
    IF f.kind = "object" /\ "gameweek" \in f.keys /\ "transfers" \in f.keys
    THEN [gameweek |-> f.gameweek, transfers |-> f.transfers]
    ELSE DefaultState

save_state(gameweek, transfers) ==
    [kind |-> "object", keys |-> {"gameweek", "transfers"},
     gameweek |-> gameweek, transfers |-> transfers]

(***************************************************************************)
(* What login_to_fix and scrape_target_transfers hand to the check.        *)
(***************************************************************************)
\* login_to_fix returns False: a request failed, or a page lacked the
\* password field or the "Logout" text.
LoginFailure ==
    [login |-> "False", transfers |-> <<>>, chip |-> NoneStr,
     gameweek |-> NoneStr]

\* login_to_fix raises: a page without a csrfmiddlewaretoken input makes
\* soup.find(...) None, and None['value'] is a TypeError, which the except
\* clause of line 88 does not name.
LoginError ==
    [login |-> "TypeError", transfers |-> <<>>, chip |-> NoneStr,
     gameweek |-> NoneStr]

\* login_to_fix returns True and scrape_target_transfers returns its triple
\* (it catches every exception itself).
ScrapeResults ==
    [login : {"True"}, transfers : TransferLists(MaxTransfers), chip : Chips,
     gameweek : GameweekStrs \cup {NoneStr}]

Inputs == {LoginFailure, LoginError} \cup ScrapeResults

Observed(in) == in.login = "True" /\ in.gameweek # NoneStr

(***************************************************************************)
(* check_for_new_transfers                                                 *)
(***************************************************************************)
\* A message is its fixed heading (kind) and the values formatted into it.
Message(kind, gw, chip, lines) ==
    [kind |-> kind, gw |-> gw, chip |-> chip, lines |-> lines]

NoMessage == Message("", None, <<>>, <<>>)

\* A call that ends in an exception returns nothing; f is the state file it
\* leaves and called_save tells whether save_state was called.
Raises(f, called_save) ==
    [raised |-> TRUE, message |-> NoMessage, noteworthy |-> FALSE,
     wrote |-> called_save, file |-> f]

\* The OUT/IN lines of a list of pairs, in the order of the list.
TransferLines(pairs) ==
    [i \in 1..Len(pairs) |->
        <<escape_markdown(pairs[i][1]), escape_markdown(pairs[i][2])>>]

\* chip or "None"
ChipOrNone(chip) ==
    IF chip = NoneStr \/ chip = <<>> THEN <<"N", "o", "n", "e">> ELSE chip

\* Mutant: the seen set is not subtracted.
new_transfers_ignoring_seen(current_transfers, saved_transfers) ==
    Range(current_transfers)

\* Mutant: symmetric difference (current_set ^ seen_set) in place of "-".
new_transfers_symmetric(current_transfers, saved_transfers) ==
    (Range(current_transfers) \ Range(saved_transfers))
        \cup (Range(saved_transfers) \ Range(current_transfers))

\* Mutant: a pair counts as seen when it was saved in either direction.
new_transfers_unordered(current_transfers, saved_transfers) ==
    {p \in Range(current_transfers) :
        /\ p \notin Range(saved_transfers)
        /\ <<p[2], p[1]>> \notin Range(saved_transfers)}

\* current_set - seen_set
new_transfers(current_transfers, saved_transfers) ==
    Range(current_transfers) \ Range(saved_transfers)

\* The orders in which a for loop can run over a Python set: string hashes
\* are salted per process, so every enumeration of the set can occur.
SetIterationOrders(S) ==
    {o \in [1..Cardinality(S) -> S] : Range(o) = S}

\* Mutant: a gameweek change with no transfers yet is not saved.
Reconcile_skipping_empty_rollover(in, saved_state, order) ==
    LET current_gameweek == int(in.gameweek)
        saved_gameweek   == saved_state.gameweek
        saved_transfers  == saved_state.transfers
        escaped_chip     == escape_markdown(ChipOrNone(in.chip))
    IN  IF current_gameweek # saved_gameweek
        THEN IF in.transfers = <<>>
             THEN [message |-> Message("GameweekUpdated", current_gameweek, <<>>, <<>>),
                   noteworthy |-> FALSE, save |-> FALSE]
             ELSE [message |-> Message("FirstTransfers", current_gameweek,
                                       escaped_chip, TransferLines(in.transfers)),
                   noteworthy |-> TRUE, save |-> TRUE]
        ELSE IF new_transfers(in.transfers, saved_transfers) = {}
             THEN [message |-> Message("NoNewTransfers", current_gameweek, <<>>, <<>>),
                   noteworthy |-> FALSE, save |-> FALSE]
             ELSE [message |-> Message("NewTransfers", current_gameweek,
                                       escaped_chip, TransferLines(order)),
                   noteworthy |-> TRUE, save |-> TRUE]

\* Mutant: every gameweek change is flagged, transfers or not.
Reconcile_rollover_always_noteworthy(in, saved_state, order) ==
    LET current_gameweek == int(in.gameweek)
        saved_gameweek   == saved_state.gameweek
        saved_transfers  == saved_state.transfers
        escaped_chip     == escape_markdown(ChipOrNone(in.chip))
    IN  IF current_gameweek # saved_gameweek
        THEN IF in.transfers = <<>>
             THEN [message |-> Message("GameweekUpdated", current_gameweek, <<>>, <<>>),
                   noteworthy |-> TRUE, save |-> TRUE]
             ELSE [message |-> Message("FirstTransfers", current_gameweek,
                                       escaped_chip, TransferLines(in.transfers)),
                   noteworthy |-> TRUE, save |-> TRUE]
        ELSE IF new_transfers(in.transfers, saved_transfers) = {}
             THEN [message |-> Message("NoNewTransfers", current_gameweek, <<>>, <<>>),
                   noteworthy |-> FALSE, save |-> FALSE]
             ELSE [message |-> Message("NewTransfers", current_gameweek,
                                       escaped_chip, TransferLines(order)),
                   noteworthy |-> TRUE, save |-> TRUE]

\* Mutant: save_state is called before the test for new transfers.
Reconcile_saving_when_nothing_new(in, saved_state, order) ==
    LET current_gameweek == int(in.gameweek)
        saved_gameweek   == saved_state.gameweek
        saved_transfers  == saved_state.transfers
        escaped_chip     == escape_markdown(ChipOrNone(in.chip))
    IN  IF current_gameweek # saved_gameweek
        THEN IF in.transfers = <<>>
             THEN [message |-> Message("GameweekUpdated", current_gameweek, <<>>, <<>>),
                   noteworthy |-> FALSE, save |-> TRUE]
             ELSE [message |-> Message("FirstTransfers", current_gameweek,
                                       escaped_chip, TransferLines(in.transfers)),
                   noteworthy |-> TRUE, save |-> TRUE]
        ELSE IF new_transfers(in.transfers, saved_transfers) = {}
             THEN [message |-> Message("NoNewTransfers", current_gameweek, <<>>, <<>>),
                   noteworthy |-> FALSE, save |-> TRUE]
             ELSE [message |-> Message("NewTransfers", current_gameweek,
                                       escaped_chip, TransferLines(order)),
                   noteworthy |-> TRUE, save |-> TRUE]

\* Mutant: an active chip alone counts as news within a gameweek.
Reconcile_diffing_chip(in, saved_state, order) ==
    LET current_gameweek == int(in.gameweek)
        saved_gameweek   == saved_state.gameweek
        saved_transfers  == saved_state.transfers
        escaped_chip     == escape_markdown(ChipOrNone(in.chip))
    IN  IF current_gameweek # saved_gameweek
        THEN IF in.transfers = <<>>
             THEN [message |-> Message("GameweekUpdated", current_gameweek, <<>>, <<>>),
                   noteworthy |-> FALSE, save |-> TRUE]
             ELSE [message |-> Message("FirstTransfers", current_gameweek,
                                       escaped_chip, TransferLines(in.transfers)),
                   noteworthy |-> TRUE, save |-> TRUE]
        ELSE IF new_transfers(in.transfers, saved_transfers) = {}
                  /\ in.chip = NoneStr
             THEN [message |-> Message("NoNewTransfers", current_gameweek, <<>>, <<>>),
                   noteworthy |-> FALSE, save |-> FALSE]
             ELSE [message |-> Message("NewTransfers", current_gameweek,
                                       escaped_chip, TransferLines(order)),
                   noteworthy |-> TRUE, save |-> TRUE]

\* Lines 152-194: the decision once the gameweek is known and the state is
\* loaded.  `order` is the iteration order of new_transfers.
Reconcile(in, saved_state, order) ==
    LET current_gameweek == int(in.gameweek)
        saved_gameweek   == saved_state.gameweek
        saved_transfers  == saved_state.transfers
        escaped_chip     == escape_markdown(ChipOrNone(in.chip))
    IN  IF current_gameweek # saved_gameweek
        THEN IF in.transfers = <<>>
             THEN [message |-> Message("GameweekUpdated", current_gameweek, <<>>, <<>>),
                   noteworthy |-> FALSE, save |-> TRUE]
             ELSE [message |-> Message("FirstTransfers", current_gameweek,
                                       escaped_chip, TransferLines(in.transfers)),
                   noteworthy |-> TRUE, save |-> TRUE]
        ELSE IF new_transfers(in.transfers, saved_transfers) = {}
             THEN [message |-> Message("NoNewTransfers", current_gameweek, <<>>, <<>>),
                   noteworthy |-> FALSE, save |-> FALSE]
             ELSE [message |-> Message("NewTransfers", current_gameweek,
                                       escaped_chip, TransferLines(order)),
                   noteworthy |-> TRUE, save |-> TRUE]

\* Mutant: a scrape without a gameweek still writes what it scraped.
check_for_new_transfers_writing_on_failure(in, f, order) ==
    IF in.login = "TypeError"
    THEN Raises(f, FALSE)
    ELSE IF in.login = "False"
    THEN [raised |-> FALSE, message |-> Message("LoginFailed", None, <<>>, <<>>),
          noteworthy |-> FALSE, wrote |-> FALSE, file |-> f]
    ELSE IF in.gameweek = NoneStr
    THEN [raised |-> FALSE, message |-> Message("ScrapingError", None, <<>>, <<>>),
          noteworthy |-> FALSE, wrote |-> TRUE,
          file |-> save_state(None, in.transfers)]
    ELSE LET r == Reconcile(in, load_state(f), order)
         IN  [raised |-> FALSE, message |-> r.message,
              noteworthy |-> r.noteworthy, wrote |-> r.save,
              file |-> IF r.save
                       THEN save_state(int(in.gameweek), in.transfers)
                       ELSE f]


\* Mutant: within a gameweek only the new transfers are saved.
check_for_new_transfers_saving_delta(in, f, order) ==
    IF in.login = "TypeError"
    THEN Raises(f, FALSE)
    ELSE IF in.login = "False"
    THEN [raised |-> FALSE, message |-> Message("LoginFailed", None, <<>>, <<>>),
          noteworthy |-> FALSE, wrote |-> FALSE, file |-> f]
    ELSE IF in.gameweek = NoneStr
    THEN [raised |-> FALSE, message |-> Message("ScrapingError", None, <<>>, <<>>),
          noteworthy |-> FALSE, wrote |-> FALSE, file |-> f]
    ELSE LET r == Reconcile(in, load_state(f), order)
         IN  [raised |-> FALSE, message |-> r.message,
              noteworthy |-> r.noteworthy, wrote |-> r.save,
              file |-> IF r.save
                       THEN save_state(int(in.gameweek),
                                       IF r.message.kind = "NewTransfers"
                                       THEN order ELSE in.transfers)
                       ELSE f]


\* The whole call: its return value and the state file it leaves.
check_for_new_transfers(in, f, order) ==
    IF in.login = "TypeError"
    THEN Raises(f, FALSE)
    ELSE IF in.login = "False"
    THEN [raised |-> FALSE, message |-> Message("LoginFailed", None, <<>>, <<>>),
          noteworthy |-> FALSE, wrote |-> FALSE, file |-> f]
    ELSE IF in.gameweek = NoneStr
    THEN [raised |-> FALSE, message |-> Message("ScrapingError", None, <<>>, <<>>),
          noteworthy |-> FALSE, wrote |-> FALSE, file |-> f]
    ELSE LET r == Reconcile(in, load_state(f), order)
         IN  [raised |-> FALSE, message |-> r.message,
              noteworthy |-> r.noteworthy, wrote |-> r.save,
              file |-> IF r.save
                       THEN save_state(int(in.gameweek), in.transfers)
                       ELSE f]

\* The iteration orders the call can meet on this input and state file.
Orders(in, f) ==
    IF Observed(in)
    THEN SetIterationOrders(new_transfers(in.transfers, load_state(f).transfers))
    ELSE {<<>>}

(***************************************************************************)
(* State.                                                                  *)
(***************************************************************************)
VARIABLES
    file,        \* content of transfers.json
    pre,         \* content of transfers.json when the latest check began
    snap,        \* what login and scrape returned to the latest check
    msg,         \* message returned by the latest check
    noteworthy,  \* flag returned by the latest check
    wrote,       \* whether the latest check called save_state
    checked,     \* whether any check has run yet
    reported,    \* history: <<gameweek, pair>> listed so far in noteworthy messages
    loop,        \* the coroutine the event loop is running, or "none"
    pc,          \* where each trigger's coroutine stands
    local,       \* each coroutine's local variables
    fault,       \* condition of the state store met by the latest check
    raised,      \* whether the latest check ended in an exception
    by,          \* the trigger that ran the latest check
    outbox,      \* per trigger, the messages its latest run has sent, in order
    admin_id,    \* the environment's ADMIN_USER_ID
    jobs,        \* per job name, the number of scheduled jobs of that name
    jobsBefore,  \* jobs when the latest /start began
    lastStart    \* the latest /start: sender, chat and reply

callvars == <<pre, snap, msg, noteworthy, wrote, checked>>
loopvars == <<loop, pc, local>>
storevars == <<fault, raised>>
trigvars == <<by, outbox>>
startvars == <<admin_id, jobs, jobsBefore, lastStart>>
extvars == <<storevars, trigvars, startvars>>
vars == <<file, callvars, reported, loopvars, extvars>>

\* The pairs of the universe whose OUT/IN lines a message holds.
ListedPairs(m) ==
    {p \in PairUniverse :
        <<escape_markdown(p[1]), escape_markdown(p[2])>> \in Range(m.lines)}

\* What a returned message adds to the history of reported pairs.
Listing(m, flag) ==
    IF flag THEN {<<m.gw, p>> : p \in ListedPairs(m)} ELSE {}

\* The two triggers: the daily job and the /check command.
Handlers == {"send_daily_report", "check"}

NoLocals ==
    [in |-> LoginFailure, saved_state |-> DefaultState,
     message |-> NoMessage, has_updates |-> FALSE]

\* str(n) for an int: its decimal digits, "-" first when negative.
DigitChars == <<"0", "1", "2", "3", "4", "5", "6", "7", "8", "9">>

RECURSIVE str(_)
str(n) ==
    IF n < 0 THEN <<"-">> \o str(0 - n)
    ELSE IF n < 10 THEN <<DigitChars[n + 1]>>
    ELSE str(n \div 10) \o <<DigitChars[(n % 10) + 1]>>

\* The chats a /start can come from (a group chat has a negative id).
Chats == {10, 20, -30}

\* The job names /start uses: name=str(chat_id).
JobNames == {str(c) : c \in Chats}

NoStart == [user |-> 0, chat |-> 0, reply |-> "none"]

\* The state at launch, given the state files and the ADMIN_USER_ID
\* settings the launch can meet.
InitWith(files, admins) ==
    /\ file \in files
    /\ pre = file
    /\ snap = LoginFailure
    /\ msg = Message("LoginFailed", None, <<>>, <<>>)
    /\ noteworthy = FALSE
    /\ wrote = FALSE
    /\ checked = FALSE
    /\ reported = {}
    /\ loop = "none"
    /\ pc = [h \in Handlers |-> "idle"]
    /\ local = [h \in Handlers |-> NoLocals]
    /\ fault = "ok"
    /\ raised = FALSE
    /\ by = "none"
    /\ outbox = [h \in Handlers |-> <<>>]
    /\ admin_id \in admins
    /\ jobs = [n \in JobNames |-> 0]
    /\ jobsBefore = jobs
    /\ lastStart = NoStart

Init == InitWith({FileAbsent, FileLegacyArray}, {NoneStr})

(***************************************************************************)
(* The check as one step: check_for_new_transfers has no await, so a call  *)
(* runs from login to return without another coroutine in between.         *)
(***************************************************************************)
\* One call of check_for_new_transfers on input `in`, by either trigger.
Call(in) ==
    \E order \in Orders(in, file) :
        LET r == check_for_new_transfers(in, file, order)
        IN  /\ file' = r.file
            /\ pre' = file
            /\ snap' = in
            /\ msg' = r.message
            /\ noteworthy' = r.noteworthy
            /\ wrote' = r.wrote
            /\ checked' = TRUE
            /\ raised' = r.raised

Check ==
    \E in \in Inputs :
        /\ Call(in)
        /\ UNCHANGED <<reported, loopvars, fault, trigvars, startvars>>

Next == Check

Spec == Init /\ [][Next]_vars

\* The same step, with the history of reported pairs kept.
CheckRecorded ==
    \E in \in Inputs :
        /\ Call(in)
        /\ reported' = reported \cup Listing(msg', noteworthy')
        /\ UNCHANGED <<loopvars, fault, trigvars, startvars>>

NextHist == CheckRecorded

SpecHist == Init /\ [][NextHist]_vars

(***************************************************************************)
(* The two triggers as coroutines on the application's one event loop.     *)
(* A coroutine keeps the loop from one await to the next; the check is     *)
(* taken apart into its reads and writes of the state file so that an      *)
(* interleaving, if the loop allowed one, would show.                      *)
(*                                                                         *)
(*   idle      not running          start     triggered, not yet run       *)
(*   announce  check: await reply_text("Checking...")                      *)
(*   enter     about to call check_for_new_transfers                       *)
(*   scraped   login and scrape done, gameweek known                       *)
(*   loaded    load_state done, decision and save_state still ahead        *)
(*   returned  check_for_new_transfers returned                            *)
(*   deliver   await send_message / reply_text of the result               *)
(***************************************************************************)
\* What a trigger's check can be handed by login and scrape.
LoopInputs ==
    {in \in Inputs : in.chip = NoneStr /\ in.gameweek # <<"0", "5">>}

\* Mutant: the state file is read through an awaited call.
Suspends_with_awaited_load(l) == l \in {"announce", "deliver", "loaded"}

\* The places where a coroutine awaits, and so hands the loop back.
Suspends(l) == l \in {"announce", "deliver"}

\* Who holds the loop once coroutine h has moved to place l.
LoopAfter(h, l) == IF l = "idle" \/ Suspends(l) THEN "none" ELSE h

\* h can take its next step: it holds the loop, or the loop is free and h
\* is a fresh task or waits at an await.
CanRun(h) ==
    \/ loop = h
    \/ loop = "none" /\ (pc[h] = "start" \/ Suspends(pc[h]))

Goto(h, l) ==
    /\ pc' = [pc EXCEPT ![h] = l]
    /\ loop' = LoopAfter(h, l)

\* The daily job comes due, or a /check command arrives.
Trigger(h) ==
    /\ pc[h] = "idle"
    /\ pc' = [pc EXCEPT ![h] = "start"]
    /\ UNCHANGED <<extvars, file, callvars, reported, loop, local>>

\* The coroutine starts: check first announces itself (an await).
Begin(h) ==
    /\ pc[h] = "start" /\ CanRun(h)
    /\ Goto(h, IF h = "check" THEN "announce" ELSE "enter")
    /\ UNCHANGED <<extvars, file, callvars, reported, local>>

\* check resumes after its announcement.
Resume(h) ==
    /\ pc[h] = "announce" /\ CanRun(h)
    /\ Goto(h, "enter")
    /\ UNCHANGED <<extvars, file, callvars, reported, local>>

\* Lines 144-152: login and scrape; a failure returns at once, and an
\* exception of login_to_fix ends the coroutine.
Scrape(h) ==
    /\ pc[h] = "enter" /\ CanRun(h)
    /\ \E in \in LoopInputs :
          IF Observed(in)
          THEN /\ local' = [local EXCEPT ![h].in = in]
               /\ Goto(h, "scraped")
          ELSE IF check_for_new_transfers(in, file, <<>>).raised
          THEN /\ local' = [local EXCEPT ![h] = NoLocals]
               /\ Goto(h, "idle")
          ELSE LET r == check_for_new_transfers(in, file, <<>>)
               IN  /\ local' = [local EXCEPT ![h].message = r.message,
                                             ![h].has_updates = r.noteworthy]
                   /\ Goto(h, "returned")
    /\ UNCHANGED <<extvars, file, callvars, reported>>

\* Lines 153-155: load_state.
Load(h) ==
    /\ pc[h] = "scraped" /\ CanRun(h)
    /\ local' = [local EXCEPT ![h].saved_state = load_state(file)]
    /\ Goto(h, "loaded")
    /\ UNCHANGED <<extvars, file, callvars, reported>>

\* Lines 157-194: the decision on the state loaded, and save_state.
Decide(h) ==
    /\ pc[h] = "loaded" /\ CanRun(h)
    /\ LET in == local[h].in
            saved_state == local[h].saved_state
        IN  \E order \in SetIterationOrders(
                             new_transfers(in.transfers, saved_state.transfers)) :
                LET r == Reconcile(in, saved_state, order)
                IN  /\ file' = IF r.save
                                THEN save_state(int(in.gameweek), in.transfers)
                                ELSE file
                    /\ local' = [local EXCEPT ![h] =
                                    [NoLocals EXCEPT !.message = r.message,
                                                     !.has_updates = r.noteworthy]]
    /\ Goto(h, "returned")
    /\ UNCHANGED <<extvars, callvars, reported>>

\* Lines 204-207 and 215: the daily job sends only when has_updates, the
\* command always replies.
Return(h) ==
    /\ pc[h] = "returned" /\ CanRun(h)
    /\ IF h = "check" \/ local[h].has_updates
       THEN Goto(h, "deliver") /\ UNCHANGED local
       ELSE Goto(h, "idle") /\ local' = [local EXCEPT ![h] = NoLocals]
    /\ UNCHANGED <<extvars, file, callvars, reported>>

\* The awaited send completes and the coroutine ends.
Delivered(h) ==
    /\ pc[h] = "deliver" /\ CanRun(h)
    /\ Goto(h, "idle")
    /\ local' = [local EXCEPT ![h] = NoLocals]
    /\ UNCHANGED <<extvars, file, callvars, reported>>

NextLoop ==
    \E h \in Handlers :
        \/ Trigger(h)
        \/ Begin(h)
        \/ Resume(h)
        \/ Scrape(h)
        \/ Load(h)
        \/ Decide(h)
        \/ Return(h)
        \/ Delivered(h)

SpecLoop == Init /\ [][NextLoop]_vars

(***************************************************************************)
(* The check on a state store that can fail.  open(STATE_FILE, 'r') and    *)
(* open(STATE_FILE, 'w') can raise, and the dump can stop after the open   *)
(* has emptied the file; load_state catches FileNotFoundError and          *)
(* JSONDecodeError only, save_state catches nothing, and neither does      *)
(* check_for_new_transfers.                                                *)
(*   ok                 reads and writes succeed                           *)
(*   unreadable         the file exists and open(..., 'r') or the decoding *)
(*                      of its bytes raises (PermissionError,              *)
(*                      IsADirectoryError, UnicodeDecodeError)             *)
(*   unwritable         open(..., 'w') raises                              *)
(*   write_interrupted  open(..., 'w') succeeds, the dump does not finish  *)
(***************************************************************************)
Faults == {"ok", "unreadable", "unwritable", "write_interrupted"}

\* A file that is not JSON: empty, or the beginning of a document.
FileGarbage ==
    [kind |-> "garbage", keys |-> {}, gameweek |-> None, transfers |-> <<>>]

\* JSON objects that lack one of the two keys.
FileNoTransfers ==
    [kind |-> "object", keys |-> {"gameweek"}, gameweek |-> 5, transfers |-> <<>>]

FileNoGameweek ==
    [kind |-> "object", keys |-> {"transfers"}, gameweek |-> None,
     transfers |-> <<PairAB>>]

\* load_state on the store: whether it raises, and what it returns if not.
load_state_on(f, flt) ==
    [raised |-> flt = "unreadable" /\ f.kind # "absent",
     state |-> load_state(f)]

\* Mutant: save_state catches its own errors and returns.
save_state_on_swallowing(gameweek, transfers, f, flt) ==
    IF flt = "unwritable"
    THEN [raised |-> FALSE, file |-> f]
    ELSE IF flt = "write_interrupted"
    THEN [raised |-> FALSE, file |-> FileGarbage]
    ELSE [raised |-> FALSE, file |-> save_state(gameweek, transfers)]

\* save_state on the store: whether it raises, and the file it leaves.
save_state_on(gameweek, transfers, f, flt) ==
    IF flt = "unwritable"
    THEN [raised |-> TRUE, file |-> f]
    ELSE IF flt = "write_interrupted"
    THEN [raised |-> TRUE, file |-> FileGarbage]
    ELSE [raised |-> FALSE, file |-> save_state(gameweek, transfers)]

\* check_for_new_transfers on the store under condition flt.  `wrote` tells
\* whether save_state was called.
check_for_new_transfers_on(in, f, flt, order) ==
    IF ~Observed(in)
    THEN check_for_new_transfers(in, f, order)
    ELSE LET l == load_state_on(f, flt)
         IN  IF l.raised
             THEN Raises(f, FALSE)
             ELSE LET r == Reconcile(in, l.state, order)
                      w == save_state_on(int(in.gameweek), in.transfers, f, flt)
                  IN  IF ~r.save
                      THEN [raised |-> FALSE, message |-> r.message,
                            noteworthy |-> r.noteworthy, wrote |-> FALSE,
                            file |-> f]
                      ELSE IF w.raised
                      THEN Raises(w.file, TRUE)
                      ELSE [raised |-> FALSE, message |-> r.message,
                            noteworthy |-> r.noteworthy, wrote |-> TRUE,
                            file |-> w.file]

\* One call of check_for_new_transfers, the store in any condition.
CheckOnStore ==
    \E in \in LoopInputs, flt \in Faults :
      \E order \in Orders(in, file) :
        LET r == check_for_new_transfers_on(in, file, flt, order)
        IN  /\ file' = r.file
            /\ pre' = file
            /\ snap' = in
            /\ msg' = r.message
            /\ noteworthy' = r.noteworthy
            /\ wrote' = r.wrote
            /\ checked' = TRUE
            /\ fault' = flt
            /\ raised' = r.raised
            /\ UNCHANGED <<reported, loopvars, trigvars, startvars>>

InitStore ==
    InitWith({FileAbsent, FileLegacyArray, FileGarbage, FileNoTransfers,
              FileNoGameweek}, {NoneStr})

NextStore == CheckOnStore

SpecStore == InitStore /\ [][NextStore]_vars

(***************************************************************************)
(* The two triggers by what they send.  A step is what a handler does from *)
(* one await to the next: check first awaits its announcement (line 211),  *)
(* and only when it is resumed calls check_for_new_transfers and replies;  *)
(* the daily job calls at once.  Between check's two steps the daily job   *)
(* can run.  The call itself has no await.                                 *)
(***************************************************************************)
\* check's first reply, "Checking for new transfers...".
Announcement == Message("Checking", None, <<>>, <<>>)

\* Mutant: both triggers send only when has_updates.
Sends_only_updates(h, has_updates) == has_updates

\* Mutant: both triggers always send.
Sends_always(h, has_updates) == TRUE

\* Whether trigger h sends the message the check returned.
Sends(h, has_updates) == h = "check" \/ has_updates

\* Trigger h calls check_for_new_transfers on what login and scrape return
\* and passes the result on; `sent` is what its run has sent so far.  A
\* call that raises ends the handler before it sends.
Run(h, in, sent) ==
    /\ Call(in)
    /\ by' = h
    /\ outbox' = [outbox EXCEPT ![h] =
                     sent \o (IF ~raised' /\ Sends(h, noteworthy')
                              THEN <<msg'>> ELSE <<>>)]
    /\ UNCHANGED <<reported, loop, local, fault, startvars>>

\* What the triggers' checks are handed here: one gameweek, so that the
\* first check is the only gameweek change.
TrigInputs == {in \in LoopInputs : in.gameweek # <<"6">>}

\* Lines 199-207: the daily job.
send_daily_report ==
    \E in \in TrigInputs :
        /\ Run("send_daily_report", in, <<>>)
        /\ UNCHANGED pc

\* Lines 209-211: /check arrives, announces itself and awaits the reply.
check_announce ==
    /\ pc["check"] = "idle"
    /\ pc' = [pc EXCEPT !["check"] = "announce"]
    /\ outbox' = [outbox EXCEPT !["check"] = <<Announcement>>]
    /\ UNCHANGED <<file, callvars, reported, loop, local, storevars, by,
                   startvars>>

\* Lines 212-215: resumed, check calls check_for_new_transfers and replies.
check_call ==
    \E in \in TrigInputs :
        /\ pc["check"] = "announce"
        /\ Run("check", in, outbox["check"])
        /\ pc' = [pc EXCEPT !["check"] = "idle"]

check == check_announce \/ check_call

NextTrig == send_daily_report \/ check

SpecTrig == Init /\ [][NextTrig]_vars

(***************************************************************************)
(* The /start command.                                                     *)
(***************************************************************************)
\* The values ADMIN_USER_ID can have: unset, empty, or some text.
AdminIds == {NoneStr, <<>>, <<"7">>, <<"0", "7">>, <<"4", "2">>}

\* The users a /start can come from.
Users == {7, 8, 42}

\* Mutant: the jobs found under the name are left in the queue.
remove_jobs_keeping(js, name) == js

\* get_jobs_by_name(name), then schedule_removal() on each job found.
remove_jobs(js, name) == [js EXCEPT ![name] = 0]

\* run_daily(..., name=name) adds one job of that name.
run_daily(js, name) == [js EXCEPT ![name] = @ + 1]

\* One /start from `user` in `chat`.
start ==
    \E user \in Users, chat \in Chats :
        /\ jobsBefore' = jobs
        /\ IF admin_id = NoneStr \/ admin_id = <<>>
           THEN /\ jobs' = jobs
                /\ lastStart' = [user |-> user, chat |-> chat,
                                 reply |-> "AdminNotConfigured"]
           ELSE IF str(user) # admin_id
           THEN /\ jobs' = jobs
                /\ lastStart' = [user |-> user, chat |-> chat,
                                 reply |-> "Unauthorized"]
           ELSE /\ jobs' = run_daily(remove_jobs(jobs, str(chat)), str(chat))
                /\ lastStart' = [user |-> user, chat |-> chat,
                                 reply |-> "SuccessfullyScheduled"]
        /\ UNCHANGED <<file, callvars, reported, loopvars, storevars, trigvars,
                       admin_id>>

InitStart == InitWith({FileAbsent}, AdminIds)

NextStart == start

SpecStart == InitStart /\ [][NextStart]_vars

(***************************************************************************)
(* Vocabulary of the properties.                                           *)
(***************************************************************************)
\* The state the latest check loaded, and the state a check would load now.
Before == load_state(pre)
Saved  == load_state(file)

Period(in) == int(in.gameweek)
Pairs(in)  == Range(in.transfers)

\* The latest check saw a snapshot with a gameweek.
Successful == checked /\ Observed(snap)
\* ... whose gameweek differs from the saved one.
Rollover == Successful /\ Period(snap) # Before.gameweek
\* ... whose gameweek is the saved one.
SamePeriod == Successful /\ Period(snap) = Before.gameweek

\* Pairs of the latest snapshot that the loaded state did not hold.
Delta == Pairs(snap) \ Range(Before.transfers)

\* The outcomes a further check on input `in` can return from this state.
Outcomes(in) ==
    {check_for_new_transfers(in, file, o) : o \in Orders(in, file)}

(***************************************************************************)
(* C1: once a pair has been listed in a noteworthy message for a gameweek, *)
(* no later check lists that pair again in a noteworthy message for the    *)
(* same gameweek.                                                          *)
(***************************************************************************)
C1_NeverReReported ==
    [][Listing(msg', noteworthy') \cap reported = {}]_vars

\* What the check on S2 is expected to report: S2.pairs minus the first
\* snapshot's pairs, or minus the pairs saved by now.
MinusFirstSnapshot(S2) == Pairs(S2) \ Pairs(snap)
MinusSavedPairs(S2) == Pairs(S2) \ Range(Saved.transfers)

SecondCallReports(S2, expected) ==
    (Observed(S2) /\ Period(S2) = Period(snap) /\ Pairs(snap) \subseteq Pairs(S2))
    => \A r \in Outcomes(S2) :
          /\ ListedPairs(r.message) = expected
          /\ r.noteworthy <=> expected # {}
          /\ r.message.kind = "NoNewTransfers" <=> expected = {}

(***************************************************************************)
(* C2 (as stated): after a check on S1, a check on any S2 of the same      *)
(* gameweek with S2.pairs a superset of S1.pairs reports exactly           *)
(* S2.pairs minus S1.pairs, and NoNewTransfers exactly when that is empty. *)
(***************************************************************************)
C2_AsStated ==
    Successful => \A S2 \in Inputs : SecondCallReports(S2, MinusFirstSnapshot(S2))

(***************************************************************************)
(* C2 (amended): when the check on S1 wrote the baseline (gameweek change  *)
(* or new transfers found), the check on S2 reports exactly S2.pairs minus *)
(* S1.pairs; when it wrote nothing (NoNewTransfers), the check on S2       *)
(* reports S2.pairs minus the pairs already saved.                         *)
(***************************************************************************)
C2_SupersetDifference ==
    /\ (Successful /\ wrote) =>
          \A S2 \in Inputs : SecondCallReports(S2, MinusFirstSnapshot(S2))
    /\ (Successful /\ ~wrote) =>
          \A S2 \in Inputs : SecondCallReports(S2, MinusSavedPairs(S2))

\* A check wrote S1, and a strict superset S2 of the same gameweek exists.
C2_Witness ==
    /\ Successful /\ wrote /\ Before.transfers # <<>>
    /\ Pairs(snap) # {} /\ Pairs(snap) # PairUniverse

(***************************************************************************)
(* C3: a second check on the same snapshot, against the state the first    *)
(* left, is never noteworthy and leaves the state file as it is.           *)
(***************************************************************************)
C3_Idempotent ==
    checked => \A r \in Outcomes(snap) :
                  /\ ~r.noteworthy
                  /\ ~r.wrote
                  /\ r.file = file

\* The first check found new transfers within the gameweek.
C3_Witness ==
    SamePeriod /\ noteworthy /\ msg.kind = "NewTransfers"

(***************************************************************************)
(* C4: a check whose login failed or whose scrape found no gameweek is     *)
(* not noteworthy and leaves the state file untouched.                     *)
(***************************************************************************)
C4_FailureLeavesState ==
    (checked /\ ~Observed(snap) /\ snap.login \in {"True", "False"}) =>
        /\ ~raised
        /\ ~noteworthy
        /\ ~wrote
        /\ file = pre
        /\ msg.kind = (IF snap.login = "True" THEN "ScrapingError"
                                              ELSE "LoginFailed")

\* A scrape with transfers but no gameweek, over a non-empty baseline.
C4_Witness ==
    /\ checked /\ snap.login = "True" /\ snap.gameweek = NoneStr
    /\ snap.transfers # <<>>
    /\ pre.kind = "object" /\ pre.transfers # <<>>
    /\ Pairs(snap) # Range(pre.transfers)

(***************************************************************************)
(* C5: on a gameweek change (first run included) the saved state becomes   *)
(* exactly the observed gameweek with the snapshot's full transfer list,   *)
(* whatever was saved before and whether or not the list is empty.         *)
(***************************************************************************)
C5_RolloverBaseline ==
    Rollover =>
        /\ wrote
        /\ file.kind = "object"
        /\ Saved = [gameweek |-> Period(snap), transfers |-> snap.transfers]
        /\ msg.kind \in {"GameweekUpdated", "FirstTransfers"}

\* A gameweek change with no transfers over a non-empty baseline.
C5_Witness ==
    Rollover /\ Before.transfers # <<>> /\ snap.transfers = <<>>

(***************************************************************************)
(* C6: a gameweek change is noteworthy exactly when the snapshot has       *)
(* transfers; a first run with transfers yields FirstTransfers, flagged.   *)
(***************************************************************************)
C6_RolloverNoteworthy ==
    Rollover =>
        /\ noteworthy <=> snap.transfers # <<>>
        /\ msg.kind =
             (IF snap.transfers # <<>> THEN "FirstTransfers" ELSE "GameweekUpdated")
        /\ msg.gw = Period(snap)
        /\ noteworthy => ListedPairs(msg) = Pairs(snap)

\* First run ever: no state file, a gameweek and transfers.
C6_Witness ==
    Rollover /\ pre = FileAbsent /\ noteworthy /\ msg.kind = "FirstTransfers"

(***************************************************************************)
(* C7: same gameweek and no pair outside the saved ones: NoNewTransfers,   *)
(* not noteworthy, no write, state file unchanged.                         *)
(***************************************************************************)
C7_NoNewNoWrite ==
    (SamePeriod /\ Delta = {}) =>
        /\ msg.kind = "NoNewTransfers"
        /\ msg.gw = Period(snap)
        /\ ~noteworthy
        /\ ~wrote
        /\ file = pre

\* The snapshot shows strictly fewer pairs than are saved.
C7_Witness ==
    /\ SamePeriod /\ Delta = {}
    /\ Pairs(snap) # Range(Before.transfers)
    /\ snap.transfers # Before.transfers

(***************************************************************************)
(* C8: same gameweek and some pair outside the saved ones: NewTransfers,   *)
(* noteworthy, listing exactly the set difference (each pair once), and    *)
(* the saved state becomes the snapshot's full list.                       *)
(***************************************************************************)
C8_NewTransfersFound ==
    (SamePeriod /\ Delta # {}) =>
        /\ msg.kind = "NewTransfers"
        /\ msg.gw = Period(snap)
        /\ noteworthy
        /\ ListedPairs(msg) = Delta
        /\ Len(msg.lines) = Cardinality(Delta)
        /\ wrote
        /\ Saved = [gameweek |-> Period(snap), transfers |-> snap.transfers]

\* New pairs next to already saved ones: the delta is not the full list.
C8_Witness ==
    /\ SamePeriod /\ Delta # {} /\ Delta # Pairs(snap)
    /\ msg.kind = "NewTransfers"

(***************************************************************************)
(* C9: after every successful check the saved gameweek is the snapshot's   *)
(* and the saved pairs contain every pair of the snapshot.                 *)
(***************************************************************************)
C9_BaselineCoversSnapshot ==
    Successful =>
        /\ Saved.gameweek = Period(snap)
        /\ Pairs(snap) \subseteq Range(Saved.transfers)

\* New transfers were found next to pairs that were not new.
C9_Witness ==
    /\ SamePeriod /\ wrote /\ Delta # Pairs(snap)
    /\ Cardinality(Pairs(snap)) > 1

(***************************************************************************)
(* C10: at most one reconciliation is in flight: while one run stands      *)
(* between its load_state and its save_state, no other run is inside       *)
(* check_for_new_transfers, so no run reads the state file in between.     *)
(***************************************************************************)
InFlight(h) == pc[h] \in {"scraped", "loaded"}

C10_AtMostOneInFlight ==
    \A h1, h2 \in Handlers :
        (h1 # h2 /\ pc[h1] = "loaded") =>
            /\ ~InFlight(h2)
            /\ loop = h1

\* The daily job stands between read and write while /check is pending.
C10_Witness ==
    /\ pc["send_daily_report"] = "loaded"
    /\ pc["check"] = "announce"

(***************************************************************************)
(* C11: no partial writes: whatever happens to a check, save_state         *)
(* interrupted included, a load_state that follows returns either the      *)
(* complete state from before the check or the complete new state.         *)
(***************************************************************************)
C11_NoPartialWrites ==
    checked =>
        \/ load_state(file) = load_state(pre)
        \/ /\ Observed(snap)
           /\ load_state(file) =
                [gameweek |-> Period(snap), transfers |-> snap.transfers]

(***************************************************************************)
(* C12: a check whose save_state failed returns no message, and so no      *)
(* noteworthy one: every noteworthy message comes with its baseline saved. *)
(***************************************************************************)
C12_FailedWriteNoMessage ==
    /\ (checked /\ wrote /\ fault \in {"unwritable", "write_interrupted"}) =>
          /\ raised
          /\ ~noteworthy
          /\ msg = NoMessage
    /\ (checked /\ noteworthy) =>
          file = save_state(Period(snap), snap.transfers)

\* New transfers were found and the write of the baseline failed.
C12_Witness ==
    /\ SamePeriod /\ Delta # {} /\ wrote /\ raised
    /\ fault = "unwritable" /\ file = pre

(***************************************************************************)
(* C13: check_for_new_transfers never ends in an exception, whatever the   *)
(* snapshot and whatever the condition of the state store.                 *)
(***************************************************************************)
C13_NeverRaises == ~raised

(***************************************************************************)
(* C14: whenever the stored document is absent, unreadable, unparseable,   *)
(* an array or lacks a key, load_state returns the default state and the   *)
(* check behaves as a first run; a stored object with both keys is         *)
(* returned as it is.                                                      *)
(***************************************************************************)
HasBothKeys(f) ==
    f.kind = "object" /\ "gameweek" \in f.keys /\ "transfers" \in f.keys

C14_LoadDegradesToDefault ==
    (checked /\ Observed(snap) /\ fault \in {"ok", "unreadable"}) =>
        IF fault = "unreadable" \/ ~HasBothKeys(pre)
        THEN /\ ~raised
             /\ msg.kind \in {"GameweekUpdated", "FirstTransfers"}
             /\ msg.gw = Period(snap)
             /\ file = save_state(Period(snap), snap.transfers)
        ELSE /\ ~raised
             /\ Before = [gameweek |-> pre.gameweek, transfers |-> pre.transfers]

(***************************************************************************)
(* C15: both triggers run the same check.  When the check returns,         *)
(* send_daily_report sends its message exactly when it returned            *)
(* noteworthy = True, and check sends the check's message after its        *)
(* announcement whatever the flag.  (A check that raises returns neither   *)
(* message nor flag, and the handler sends nothing more.)                  *)
(***************************************************************************)
C15_TriggerDelivery ==
    /\ pc["check"] = "announce" => outbox["check"] = <<Announcement>>
    /\ checked =>
        /\ \E o \in Orders(snap, pre) :
              LET r == check_for_new_transfers(snap, pre, o)
              IN  /\ msg = r.message
                  /\ noteworthy = r.noteworthy
                  /\ raised = r.raised
                  /\ file = r.file
        /\ (by = "send_daily_report" /\ ~raised) =>
              outbox[by] = (IF noteworthy THEN <<msg>> ELSE <<>>)
        /\ (by = "check" /\ ~raised /\ pc["check"] = "idle") =>
              outbox[by] = <<Announcement, msg>>
        /\ (raised /\ (by = "check" => pc["check"] = "idle")) =>
              outbox[by] = (IF by = "check" THEN <<Announcement>> ELSE <<>>)

\* The daily job has sent a NewTransfers message, and /check has passed
\* on a message that was not noteworthy.
C15_Witness ==
    /\ checked /\ by = "check" /\ ~noteworthy /\ ~raised
    /\ pc["check"] = "idle"
    /\ msg.kind = "NoNewTransfers" /\ outbox["check"] = <<Announcement, msg>>
    /\ Len(outbox["send_daily_report"]) = 1
    /\ outbox["send_daily_report"][1].kind = "NewTransfers"

(***************************************************************************)
(* C20: the baseline is shared and advanced by the check itself: after a   *)
(* run of one trigger reported pairs, a run of the other trigger on the    *)
(* unchanged snapshot returns NoNewTransfers, lists no pair, and the daily *)
(* job sends nothing.                                                      *)
(***************************************************************************)
C20_SharedBaseline ==
    (checked /\ noteworthy) =>
        /\ file = save_state(Period(snap), snap.transfers)
        /\ \A h \in Handlers \ {by} :
              \A r \in Outcomes(snap) :
                  /\ ~r.raised
                  /\ r.message.kind = "NoNewTransfers"
                  /\ ~r.noteworthy
                  /\ ListedPairs(r.message) = {}
                  /\ r.file = file
                  /\ h = "send_daily_report" => ~Sends(h, r.noteworthy)

\* The daily job has reported new transfers and written the baseline while
\* /check stood between its announcement and its call.
C20_Witness ==
    /\ checked /\ by = "send_daily_report" /\ noteworthy /\ wrote
    /\ msg.kind = "NewTransfers" /\ outbox[by] = <<msg>>
    /\ pc["check"] = "announce" /\ outbox["check"] = <<Announcement>>

\* The snapshot `in` with its chip replaced by c.
WithChip(in, c) == [in EXCEPT !.chip = c]

(***************************************************************************)
(* C16: the chip is neither saved nor compared.  From any state file, two  *)
(* snapshots that differ only in their chip give the same kind of message, *)
(* the same flag, the same listed pairs and the same file; and after a     *)
(* check, the same gameweek and transfers under another chip give          *)
(* NoNewTransfers.                                                         *)
(***************************************************************************)
C16_ChipNeitherSavedNorDiffed ==
    /\ \A in \in ScrapeResults : \A c \in Chips :
          \A r1 \in Outcomes(in) : \A r2 \in Outcomes(WithChip(in, c)) :
              /\ r1.message.kind = r2.message.kind
              /\ r1.noteworthy = r2.noteworthy
              /\ ListedPairs(r1.message) = ListedPairs(r2.message)
              /\ r1.wrote = r2.wrote
              /\ r1.file = r2.file
    /\ Successful =>
          \A c \in Chips : \A r \in Outcomes(WithChip(snap, c)) :
              /\ r.message.kind = "NoNewTransfers"
              /\ ~r.noteworthy
              /\ r.file = file

\* A check under an active chip reported new transfers and named the chip
\* in its message.
C16_Witness ==
    /\ Successful /\ snap.chip # NoneStr
    /\ msg.kind = "NewTransfers" /\ noteworthy
    /\ msg.chip = escape_markdown(snap.chip)
    /\ file = save_state(Period(snap), snap.transfers)

(***************************************************************************)
(* C17: (A,B) and (B,A) are different pairs.  When the saved pairs of      *)
(* gameweek P hold (A,B) and not (B,A), a snapshot of P holding both gives *)
(* NewTransfers listing exactly (B,A), and both are saved afterwards.      *)
(***************************************************************************)
C17_PairOrderSensitive ==
    /\ PairAB # PairBA
    /\ ( /\ SamePeriod
         /\ PairAB \in Range(Before.transfers)
         /\ PairBA \notin Range(Before.transfers)
         /\ {PairAB, PairBA} \subseteq Pairs(snap) )
       => /\ msg.kind = "NewTransfers"
          /\ noteworthy
          /\ ListedPairs(msg) = {PairBA}
          /\ Len(msg.lines) = 1
          /\ {PairAB, PairBA} \subseteq Range(Saved.transfers)

\* The reversed pair has just been reported next to the saved one.
C17_Witness ==
    /\ SamePeriod
    /\ Range(Before.transfers) = {PairAB}
    /\ Pairs(snap) = {PairAB, PairBA}
    /\ msg.kind = "NewTransfers" /\ ListedPairs(msg) = {PairBA}
    /\ Range(Saved.transfers) = {PairAB, PairBA}

\* The pairs of `list` that are not in `seen`, each once, in the order in
\* which the list first shows them.
RECURSIVE DiscoveryOrder(_, _)
DiscoveryOrder(list, seen) ==
    IF list = <<>> THEN <<>>
    ELSE IF Head(list) \in seen
         THEN DiscoveryOrder(Tail(list), seen)
         ELSE <<Head(list)>> \o DiscoveryOrder(Tail(list), seen \cup {Head(list)})

(***************************************************************************)
(* C18: the new pairs of a NewTransfers message are listed in one fixed    *)
(* order, the order in which the snapshot shows them: the latest message   *)
(* lists them so, and a check on any snapshot from the present state can   *)
(* return one message only.                                                *)
(***************************************************************************)
C18_DiscoveryOrderListing ==
    /\ (checked /\ msg.kind = "NewTransfers") =>
          msg.lines = TransferLines(
                          DiscoveryOrder(snap.transfers, Range(Before.transfers)))
    /\ \A in \in Inputs : \A r1, r2 \in Outcomes(in) : r1.message = r2.message

\* The latest /start came from the configured admin.
Authorised ==
    /\ lastStart # NoStart
    /\ admin_id # NoneStr /\ admin_id # <<>>
    /\ str(lastStart.user) = admin_id

(***************************************************************************)
(* C19: no job name ever has more than one scheduled job.  A /start from   *)
(* the admin leaves exactly one job named after its chat and the other     *)
(* chats' jobs as they were; any other /start leaves the jobs unchanged.   *)
(***************************************************************************)
C19_AtMostOneJobPerChat ==
    /\ \A n \in JobNames : jobs[n] <= 1
    /\ Authorised =>
          /\ lastStart.reply = "SuccessfullyScheduled"
          /\ jobs[str(lastStart.chat)] = 1
          /\ \A n \in JobNames \ {str(lastStart.chat)} : jobs[n] = jobsBefore[n]
    /\ (lastStart # NoStart /\ ~Authorised) =>
          /\ lastStart.reply \in {"Unauthorized", "AdminNotConfigured"}
          /\ jobs = jobsBefore

\* The admin sent /start in a chat that already had its job.
C19_Witness ==
    /\ Authorised
    /\ jobsBefore[str(lastStart.chat)] = 1
    /\ jobs[str(lastStart.chat)] = 1
    /\ \E n \in JobNames \ {str(lastStart.chat)} : jobs[n] = 1

====
